---------------------------- MODULE Spec2Model ----------------------------
(***************************************************************************)
(* Variable Mover (src/code.js): a plugin that moves selected variables    *)
(* from one collection of a design document to another.  The host has no   *)
(* move primitive, so the 'move-variables' handler creates a shell for     *)
(* each movable variable in the destination (Phase 1), copies the values   *)
(* with alias rewrite (Phase 2), rebinds the layers (Phase 3) and deletes   *)
(* the originals (Phase 4).                                                *)
(*                                                                         *)
(* The host document (variables, collections, nodes) is the state; the     *)
(* handler's position is pc.  One action models one loop iteration of the  *)
(* handler.  A host call that can throw is modelled by a second action     *)
(* for the same iteration, guarded by a budget of host failures.           *)
(***************************************************************************)
EXTENDS Naturals, Sequences, FiniteSets, TLC

\* ------------------------------------------------------------------ bounds

\* Number of variables the source collection holds at the start.
NumVariables == 3
\* Largest number of modes of a collection.
MaxModes == 2
\* Largest number of host calls that throw during one run.
MaxFaults == 1
\* Largest number of candidates handed to findDuplicateNames on its own.
MaxCandidates == 3

\* ------------------------------------------------------------- identities

SourceId      == "S"
DestinationId == "D"
\* A collection identity that resolves to nothing (a deleted collection).
DeletedCollectionId == "X"
\* A missing (falsy) collection identity in a request.
NoCollectionId == ""

SourceVar(i) == <<"S", i>>
DestVar(i)   == <<"D", i>>
NewVar(k)    == <<"new", k>>
\* An identity that resolves to no variable (the variable was deleted).
GhostVar     == <<"gone", 0>>
\* An entry of a bound-variable list that holds no variable.
NoVar        == <<"none", 0>>

Originals == {SourceVar(i) : i \in 1..NumVariables}

\* Variable names; "base" and "Base" differ only in case.
NamePool == <<"base", "alias", "Base", "accent", "spacing", "radius">>
NameOf(i) == NamePool[i]
Names == {NameOf(i) : i \in 1..NumVariables}

Types == {"COLOR", "FLOAT", "STRING", "BOOLEAN"}

\* ------------------------------------------------------------------ values

Literal(n) == [type |-> "LITERAL", value |-> n]
Alias(id)  == [type |-> "VARIABLE_ALIAS", id |-> id]
\* The value a freshly created variable holds at a mode nobody has set.
DefaultValue == [type |-> "DEFAULT"]

IsAlias(v) == v.type = "VARIABLE_ALIAS"

\* The literal the i-th original holds at its m-th mode: all distinct.
LiteralOf(i, m) == Literal(10 * i + m)


\* --------------------------------------------------------------- documents

\* A variable of the host document.  valuesByMode is the sequence of the
\* variable's values in the order of its keys, which is the order of the
\* modes of the collection that holds it.
Variable(coll, name, type, desc, hidden, scopes, syntax, values) ==
    [ variableCollectionId |-> coll,
      name                 |-> name,
      resolvedType         |-> type,
      description          |-> desc,
      hiddenFromPublishing |-> hidden,
      scopes               |-> scopes,
      codeSyntax           |-> syntax,
      valuesByMode         |-> values ]

\* Metadata a variable may carry: [description, hiddenFromPublishing,
\* scopes, codeSyntax, resolvedType].
PlainMeta ==
    [ description |-> "", hiddenFromPublishing |-> FALSE,
      scopes |-> {"ALL_SCOPES"}, codeSyntax |-> {}, resolvedType |-> "COLOR" ]

\* The metadata the first original may carry: one field at a time differs
\* from PlainMeta, or all do.
Metas ==
    { PlainMeta,
      [PlainMeta EXCEPT !.description = "primary colour"],
      [PlainMeta EXCEPT !.hiddenFromPublishing = TRUE],
      [PlainMeta EXCEPT !.scopes = {}],
      [PlainMeta EXCEPT !.scopes = {"TEXT_FILL", "STROKE_COLOR"}],
      [PlainMeta EXCEPT !.codeSyntax = {<<"WEB", "var(--c)">>}],
      [ description |-> "primary colour", hiddenFromPublishing |-> TRUE,
        scopes |-> {"TEXT_FILL", "STROKE_COLOR"},
        codeSyntax |-> {<<"WEB", "var(--c)">>}, resolvedType |-> "COLOR" ] }
    \cup { [PlainMeta EXCEPT !.resolvedType = t] : t \in Types }

\* The i-th variable of the source collection.
Original(i, meta, values) ==
    Variable(SourceId, NameOf(i), meta.resolvedType, meta.description,
             meta.hiddenFromPublishing, meta.scopes, meta.codeSyntax, values)

\* A variable the destination already holds, with the name of original i.
Resident(i, nd) ==
    Variable(DestinationId, NameOf(i), "COLOR", "resident", FALSE,
             {"ALL_SCOPES"}, {}, [m \in 1..nd |-> Literal(100 + 10 * i + m)])

LiteralValues(i, ns) == [m \in 1..ns |-> LiteralOf(i, m)]

\* A node of the document.  setBoundVariable tells whether the node has the
\* set-binding capability; bound maps each bound scalar property to the
\* variable it is bound to; fills, strokes, effects and layoutGrids are the
\* node's lists, each entry holding the variable it is bound to or NoVar;
\* unlisted holds the list properties the node no longer has as a list (the
\* property is missing, or its value is not an array).
Node(canSet, bound, fills, strokes, effects, grids) ==
    [ setBoundVariable |-> canSet,
      bound            |-> bound,
      fills            |-> fills,
      strokes          |-> strokes,
      effects          |-> effects,
      layoutGrids      |-> grids,
      unlisted         |-> {} ]

\* The scalar properties a node can bind, in the order the node lists them;
\* bound[k] is the variable the k-th one is bound to, or NoVar.
ScalarProperties == <<"width", "opacity">>
\* The list properties a node can bind, in the order the node lists them.
ListProperties   == <<"fills", "strokes", "effects", "layoutGrids">>

V1 == SourceVar(1)
V2 == SourceVar(2)
V3 == SourceVar(3)

NodeShapes ==
    { Node(TRUE,  <<V1, V3>>, <<>>, <<>>, <<>>, <<>>),
      Node(FALSE, <<V1, NoVar>>, <<>>, <<>>, <<>>, <<>>),
      Node(TRUE,  <<V2, V1>>, <<>>, <<>>, <<>>, <<>>),
      Node(TRUE,  <<NoVar, NoVar>>, <<V1>>, <<>>, <<>>, <<>>),
      Node(TRUE,  <<NoVar, NoVar>>, <<NoVar, V1, DestVar(3)>>, <<>>, <<>>, <<>>),
      Node(TRUE,  <<NoVar, NoVar>>, <<>>, <<V1>>, <<V2, V1>>, <<>>),
      Node(TRUE,  <<NoVar, NoVar>>, <<>>, <<>>, <<>>, <<V1>>) }

\* The identities of the destination's residents, in collection order.
ResidentIds(residents) ==
    LET seq == SelectSeq([i \in 1..NumVariables |-> i],
                         LAMBDA i : i \in residents)
    IN  [k \in 1..Len(seq) |-> DestVar(seq[k])]

Document(vars, ns, nd, residents, nodes, pages) ==
    [ variables   |-> vars @@ [id \in {DestVar(i) : i \in residents}
                                  |-> Resident(id[2], nd)],
      collections |->
          (SourceId :> [ name |-> "Brand", modes |-> ns,
                         variableIds |-> [i \in 1..NumVariables |-> SourceVar(i)] ])
       @@ (DestinationId :> [ name |-> "Tokens", modes |-> nd,
                              variableIds |-> ResidentIds(residents) ]),
      nodes       |-> nodes,
      pages       |-> pages ]

PlainVariables(ns) ==
    [id \in Originals |-> Original(id[2], PlainMeta, LiteralValues(id[2], ns))]

NoNodes == <<>>
\* A document always has a page; this one holds no node.
EmptyPage == << <<>> >>

\* The alias values a document may start with: one of the first two
\* originals holds at its m-th mode an alias to another of the first three
\* originals (one that comes before it or after it in the collection) or to
\* a variable that no longer exists.
AliasEdges(ns) ==
    { e \in (1..2) \X (1..ns) \X {V1, V2, V3, GhostVar} :
        e[3] # SourceVar(e[1]) }

WithAlias(vars, e) ==
    [vars EXCEPT ![SourceVar(e[1])].valuesByMode[e[2]] = Alias(e[3])]

AliasVariables(ns) ==
    {PlainVariables(ns)} \cup {WithAlias(PlainVariables(ns), e) : e \in AliasEdges(ns)}

\* The mode counts of the collections: a single mode, and the most.
ModeCounts == {1, MaxModes}

\* Documents whose variables alias each other: at most one alias value, in
\* collections of every pair of mode counts (equal, more modes in the
\* source, more modes in the destination) with an empty destination, and in
\* single-mode collections whose destination holds a resident with the name
\* of the first original.
AliasDocuments ==
    UNION { { Document(vars, ns, nd, {}, NoNodes, EmptyPage) :
                vars \in AliasVariables(ns), nd \in ModeCounts }
          : ns \in ModeCounts }
    \cup { Document(vars, 1, 1, {1}, NoNodes, EmptyPage) : vars \in AliasVariables(1) }

\* Documents whose first original carries each kind of metadata.
MetaDocuments ==
    { Document([PlainVariables(1) EXCEPT
                   ![V1] = Original(1, meta, LiteralValues(1, 1))],
               1, 1, {}, NoNodes, EmptyPage) : meta \in Metas }

\* Documents with two nodes, one on each of two pages, bound to variables;
\* the destination holds a resident with the name of the third original.
BindingDocuments ==
    { Document(PlainVariables(1), 1, 1, {3}, <<n1, n2>>, << <<1>>, <<2>> >>) :
        n1 \in NodeShapes, n2 \in NodeShapes }

Documents == AliasDocuments \cup MetaDocuments \cup BindingDocuments

\* ------------------------------------------------------------------- state

VARIABLES
    \* the host document
    variables,      \* identity -> variable, for the variables that exist
    collections,    \* identity -> collection (mode count, variableIds)
    nodes,          \* the nodes of the document, in document order
    pages,          \* the pages, each the sequence of its nodes' positions
    nextId,         \* the number of variables the host has created
    \* the 'move-variables' handler
    pc,             \* the handler's position
    msg,            \* the request
    duplicates,     \* selected variables blocked by a name in the destination
    safeToMove,     \* selected variables that proceed to Phase 1
    idMapping,      \* old variable identity -> new variable
    i,              \* the index of the running loop
    oldVariableIds, \* the keys of idMapping, in insertion order
    allBindings,    \* the bindings Phase 3 located
    createSuccessCount, createErrorCount,
    valueSuccessCount, valueErrorCount,
    rebindSuccessCount, rebindErrorCount,
    deleteCount,
    uiMessages,     \* the messages posted to the UI, in order
    notifications,  \* the transient notifications shown, in order
    \* bookkeeping of the model
    thrown,         \* the host calls that have thrown in this run
    before,         \* the document as it was when the request arrived
    userEdits,      \* the edits the user has made to layers during the run
    candidates,     \* findDuplicateNames on its own: the candidates' names
    destinationNames, \* ... the destination name set
    partition,      \* ... the result
    \* a second execution of the handler
    suspended       \* the local state of the execution that is not running

document == <<variables, collections, nodes, pages, nextId>>
counters == <<createSuccessCount, createErrorCount, valueSuccessCount,
              valueErrorCount, rebindSuccessCount, rebindErrorCount, deleteCount>>
handler  == <<pc, msg, duplicates, safeToMove, idMapping, i, oldVariableIds,
              allBindings, counters, uiMessages, notifications>>
standalone == <<candidates, destinationNames, partition>>
vars == <<document, handler, thrown, before, userEdits, standalone, suspended>>

\* ------------------------------------------------------------ the helpers

\* src/code.js getVariablesInCollection: the variables of a collection that
\* still resolve, in the order of collection.variableIds; the empty
\* sequence when the collection does not resolve.
GetVariablesInCollection(collectionId) ==
    IF collectionId \notin DOMAIN collections
    THEN <<>>
    ELSE LET ids == SelectSeq(collections[collectionId].variableIds,
                              LAMBDA id : id \in DOMAIN variables)
         IN  [k \in 1..Len(ids) |-> [id |-> ids[k], name |-> variables[ids[k]].name]]

\* src/code.js getVariableNamesInCollection
GetVariableNamesInCollection(collectionId) ==
    LET vs == GetVariablesInCollection(collectionId)
    IN  {vs[k].name : k \in 1..Len(vs)}

\* A findDuplicateNames that blocks nothing.
FindDuplicateNamesBlockingNone(sourceVariables, names) ==
    [ duplicates |-> <<>>, canMove |-> sourceVariables ]

\* A findDuplicateNames that compares names without regard to case.
FoldCase(name) == IF name = "Base" THEN "base" ELSE name

FindDuplicateNamesFoldingCase(sourceVariables, names) ==
    LET folded == {FoldCase(n) : n \in names}
    IN  [ duplicates |-> SelectSeq(sourceVariables,
                                   LAMBDA v : FoldCase(v.name) \in folded),
          canMove    |-> SelectSeq(sourceVariables,
                                   LAMBDA v : FoldCase(v.name) \notin folded) ]

\* src/code.js findDuplicateNames: Set.has compares names exactly.
FindDuplicateNames(sourceVariables, names) ==
    [ duplicates |-> SelectSeq(sourceVariables, LAMBDA v : v.name \in names),
      canMove    |-> SelectSeq(sourceVariables, LAMBDA v : v.name \notin names) ]

\* A getDisplayTypeName that returns every tag as it is.
GetDisplayTypeNameUnchanged(figmaType) == figmaType

\* src/code.js getDisplayTypeName
GetDisplayTypeName(figmaType) ==
    IF figmaType = "FLOAT" THEN "NUMBER" ELSE figmaType

\* The variable figma.variables.createVariable returns: the host's defaults
\* for everything but name, collection and type, and the default value at
\* every mode of the collection.
CreateVariable(name, collectionId, resolvedType) ==
    Variable(collectionId, name, resolvedType, "", FALSE, {"ALL_SCOPES"}, {},
             [m \in 1..collections[collectionId].modes |-> DefaultValue])

\* The host calls of createVariableInCollection, in order.
CreateStages ==
    <<"createVariable", "description", "hiddenFromPublishing", "scopes", "codeSyntax">>

StageIndex(stage) == CHOOSE k \in 1..Len(CreateStages) : CreateStages[k] = stage

\* Whether createVariableInCollection makes the host call of a stage.
StageRuns(original, stage) ==
    CASE stage = "description" -> original.description # ""
      [] stage = "scopes"      -> original.scopes # {}
      [] stage = "codeSyntax"  -> original.codeSyntax # {}
      [] OTHER                 -> TRUE

\* src/code.js createVariableInCollection: the new variable as it is when
\* the host call of stage throwAt throws ("" when none throws).  The first
\* stage creates it; each later stage that runs copies one field.
CreateVariableInCollection(original, destinationCollectionId, throwAt) ==
    LET done(stage) == (throwAt = "" \/ StageIndex(stage) < StageIndex(throwAt))
                       /\ StageRuns(original, stage)
        v0 == CreateVariable(original.name, destinationCollectionId,
                             original.resolvedType)
        v1 == IF done("description")
              THEN [v0 EXCEPT !.description = original.description] ELSE v0
        v2 == IF done("hiddenFromPublishing")
              THEN [v1 EXCEPT !.hiddenFromPublishing = original.hiddenFromPublishing]
              ELSE v1
        v3 == IF done("scopes")
              THEN [v2 EXCEPT !.scopes = original.scopes] ELSE v2
        v4 == IF done("codeSyntax")
              THEN [v3 EXCEPT !.codeSyntax = original.codeSyntax] ELSE v3
    IN  v4

\* A copy that keeps every alias that still resolves as it is, whether or
\* not the variable it refers to is being moved.
CopiedValueKeepingAlias(originalValue, mapping, lookupThrows) ==
    IF IsAlias(originalValue)
    THEN IF ~lookupThrows /\ originalValue.id \in DOMAIN variables
         THEN Alias(originalValue.id)
         ELSE [type |-> "skip"]
    ELSE originalValue

\* A copy that rewrites the aliases to moved variables and sets no value for
\* an alias to a variable that stays behind.
CopiedValueDroppingUnmoved(originalValue, mapping, lookupThrows) ==
    IF IsAlias(originalValue)
    THEN IF originalValue.id \in DOMAIN mapping
         THEN Alias(mapping[originalValue.id])
         ELSE [type |-> "skip"]
    ELSE originalValue

\* A copy that keeps an alias to a variable that is not moved without
\* looking whether the variable still exists.
CopiedValueKeepingDangling(originalValue, mapping, lookupThrows) ==
    IF IsAlias(originalValue)
    THEN IF originalValue.id \in DOMAIN mapping
         THEN Alias(mapping[originalValue.id])
         ELSE IF ~lookupThrows THEN Alias(originalValue.id) ELSE [type |-> "skip"]
    ELSE originalValue

\* What copyVariableValues does with one paired value: the value it sets,
\* or "skip" when it sets none.  lookupThrows: getVariableByIdAsync throws.
CopiedValue(originalValue, mapping, lookupThrows) ==
    IF IsAlias(originalValue)
    THEN IF originalValue.id \in DOMAIN mapping
         THEN Alias(mapping[originalValue.id])
         ELSE IF ~lookupThrows /\ originalValue.id \in DOMAIN variables
              THEN Alias(originalValue.id)
              ELSE [type |-> "skip"]
    ELSE originalValue

\* A copy that sets the destination modes the original has no value for to
\* the original's last value.
CopyVariableValuesFillingModes(originalVariable, newVariable, destinationCollectionId, mapping, throwAt, lookupThrowsAt) ==
    LET originalValues == originalVariable.valuesByMode
    IN  [m \in 1..Len(newVariable.valuesByMode) |->
            LET v == CopiedValue(originalValues[IF m <= Len(originalValues)
                                                THEN m ELSE Len(originalValues)],
                                 mapping, lookupThrowsAt = m)
            IN  IF (throwAt = 0 \/ m < throwAt) /\ v.type # "skip"
                THEN v ELSE newVariable.valuesByMode[m]]

\* src/code.js copyVariableValues: the new variable's valuesByMode after the
\* call.  The i-th destination mode is paired with the i-th key of the
\* original's valuesByMode.  throwAt: the destination mode at which
\* createVariableAlias or setValueForMode throws and the throw leaves the
\* function (0: none); lookupThrowsAt: the mode at which a host call inside
\* the function's own try/catch throws and is caught there (0: none).
CopyVariableValues(originalVariable, newVariable, destinationCollectionId, mapping, throwAt, lookupThrowsAt) ==
    LET destinationModes == collections[destinationCollectionId].modes
        originalValues   == originalVariable.valuesByMode
    IN  [m \in 1..Len(newVariable.valuesByMode) |->
            IF /\ m <= destinationModes
               /\ m <= Len(originalValues)
               /\ (throwAt = 0 \/ m < throwAt)
            THEN LET v == CopiedValue(originalValues[m], mapping, lookupThrowsAt = m)
                 IN  IF v.type = "skip" THEN newVariable.valuesByMode[m] ELSE v
            ELSE newVariable.valuesByMode[m]]

\* The original's value at mode m is an alias to a variable that is not
\* moved: copyVariableValues handles it inside its own try/catch.
KeepsAlias(originalVariable, m, mapping) ==
    /\ IsAlias(originalVariable.valuesByMode[m])
    /\ originalVariable.valuesByMode[m].id \notin DOMAIN mapping

\* The modes at which copyVariableValues calls createVariableAlias or
\* setValueForMode outside its own try/catch: a throw there leaves
\* copyVariableValues.
SetModes(originalVariable, destinationCollectionId, mapping) ==
    { m \in 1..collections[destinationCollectionId].modes :
        /\ m <= Len(originalVariable.valuesByMode)
        /\ ~KeepsAlias(originalVariable, m, mapping) }

\* The modes at which copyVariableValues calls getVariableByIdAsync,
\* createVariableAlias and setValueForMode inside its own try/catch.
LookupModes(originalVariable, destinationCollectionId, mapping) ==
    { m \in 1..collections[destinationCollectionId].modes :
        /\ m <= Len(originalVariable.valuesByMode)
        /\ KeepsAlias(originalVariable, m, mapping) }

\* The list a node holds for a list property.
ListOf(node, property) ==
    CASE property = "fills"       -> node.fills
      [] property = "strokes"     -> node.strokes
      [] property = "effects"     -> node.effects
      [] property = "layoutGrids" -> node.layoutGrids

RECURSIVE Flatten(_)
Flatten(seqs) ==
    IF seqs = <<>> THEN <<>> ELSE Head(seqs) \o Flatten(Tail(seqs))

\* The positions of seq that hold a target, in order.
TargetIndices(seq, targetVariableIds) ==
    SelectSeq([k \in 1..Len(seq) |-> k],
              LAMBDA k : seq[k] # NoVar /\ seq[k] \in targetVariableIds)

\* The scalar bindings of node n that refer to a target.
ScalarBindings(n, targetVariableIds) ==
    LET ks == TargetIndices(nodes[n].bound, targetVariableIds)
    IN  [j \in 1..Len(ks) |->
            [ node |-> n, property |-> ScalarProperties[ks[j]],
              variableId |-> nodes[n].bound[ks[j]],
              bindingIndex |-> 0, isArrayBinding |-> FALSE ]]

\* The entries of one list property of node n that refer to a target.
\* bindingIndex counts from 1 (the source counts from 0).
ArrayBindings(n, property, targetVariableIds) ==
    LET list == ListOf(nodes[n], property)
        ks   == TargetIndices(list, targetVariableIds)
    IN  [j \in 1..Len(ks) |->
            [ node |-> n, property |-> property,
              variableId |-> list[ks[j]],
              bindingIndex |-> ks[j], isArrayBinding |-> TRUE ]]

NodeBindings(n, targetVariableIds) ==
    ScalarBindings(n, targetVariableIds)
    \o Flatten([k \in 1..Len(ListProperties) |->
                  ArrayBindings(n, ListProperties[k], targetVariableIds)])

\* src/code.js findAllVariableBindings: every page, every node, every bound
\* property, in that order.
FindAllVariableBindings(variableIds) ==
    Flatten([p \in 1..Len(pages) |->
        Flatten([k \in 1..Len(pages[p]) |->
            NodeBindings(pages[p][k], variableIds)])])

\* A rebindVariable that rebinds the entry in its copy of the fills and
\* never writes the copy back to the node.
RebindVariableWithoutWriteBack(node, property, newVariable, bindingIndex, isArrayBinding, throws) ==
    LET failed == [ok |-> FALSE, node |-> node]
        k      == CHOOSE k \in 1..Len(ScalarProperties) : ScalarProperties[k] = property
    IN  IF throws THEN failed
        ELSE IF ~isArrayBinding
        THEN IF node.setBoundVariable
             THEN [ok |-> TRUE, node |-> [node EXCEPT !.bound[k] = newVariable]]
             ELSE failed
        ELSE IF property \in {"fills", "strokes", "effects"} \ node.unlisted
        THEN IF bindingIndex > Len(ListOf(node, property)) THEN failed
             ELSE [ok |-> TRUE, node |-> node]
        ELSE failed

\* A rebindVariable that writes the entry at the recorded index without
\* looking at the length of the node's list.
RebindVariableIgnoringRange(node, property, newVariable, bindingIndex, isArrayBinding, throws) ==
    LET failed == [ok |-> FALSE, node |-> node]
        k      == CHOOSE k \in 1..Len(ScalarProperties) : ScalarProperties[k] = property
    IN  IF throws THEN failed
        ELSE IF ~isArrayBinding
        THEN IF node.setBoundVariable
             THEN [ok |-> TRUE, node |-> [node EXCEPT !.bound[k] = newVariable]]
             ELSE failed
        ELSE IF property = "fills" /\ "fills" \notin node.unlisted
        THEN [ok |-> TRUE, node |-> [node EXCEPT !.fills[bindingIndex] = newVariable]]
        ELSE IF property = "strokes" /\ "strokes" \notin node.unlisted
        THEN [ok |-> TRUE, node |-> [node EXCEPT !.strokes[bindingIndex] = newVariable]]
        ELSE IF property = "effects" /\ "effects" \notin node.unlisted
        THEN [ok |-> TRUE, node |-> [node EXCEPT !.effects[bindingIndex] = newVariable]]
        ELSE failed

\* A rebindVariable that writes back a list in which every bound entry
\* refers to the new variable.
RebindVariableRebindingEveryEntry(node, property, newVariable, bindingIndex, isArrayBinding, throws) ==
    LET failed == [ok |-> FALSE, node |-> node]
        k      == CHOOSE k \in 1..Len(ScalarProperties) : ScalarProperties[k] = property
        all(list) == [j \in 1..Len(list) |-> IF list[j] = NoVar THEN NoVar ELSE newVariable]
    IN  IF throws THEN failed
        ELSE IF ~isArrayBinding
        THEN IF node.setBoundVariable
             THEN [ok |-> TRUE, node |-> [node EXCEPT !.bound[k] = newVariable]]
             ELSE failed
        ELSE IF property \notin {"fills", "strokes", "effects"} \ node.unlisted
                \/ bindingIndex > Len(ListOf(node, property))
        THEN failed
        ELSE IF property = "fills"
        THEN [ok |-> TRUE, node |-> [node EXCEPT !.fills = all(@)]]
        ELSE IF property = "strokes"
        THEN [ok |-> TRUE, node |-> [node EXCEPT !.strokes = all(@)]]
        ELSE [ok |-> TRUE, node |-> [node EXCEPT !.effects = all(@)]]

\* src/code.js rebindVariable, for a node as it is now: whether it succeeds
\* and the node afterwards.  throws: a host call of the rebind throws.  For
\* fills, strokes and effects: false when the node does not have the
\* property as a list or the index is not below the list's length
\* (bindingIndex counts from 1 here).
RebindVariable(node, property, newVariable, bindingIndex, isArrayBinding, throws) ==
    LET failed == [ok |-> FALSE, node |-> node]
        k      == CHOOSE k \in 1..Len(ScalarProperties) : ScalarProperties[k] = property
    IN  IF throws THEN failed
        ELSE IF ~isArrayBinding
        THEN IF node.setBoundVariable
             THEN [ok |-> TRUE, node |-> [node EXCEPT !.bound[k] = newVariable]]
             ELSE failed
        ELSE IF property = "fills" /\ "fills" \notin node.unlisted
        THEN IF bindingIndex > Len(node.fills) THEN failed
             ELSE [ok |-> TRUE,
                   node |-> [node EXCEPT !.fills[bindingIndex] = newVariable]]
        ELSE IF property = "strokes" /\ "strokes" \notin node.unlisted
        THEN IF bindingIndex > Len(node.strokes) THEN failed
             ELSE [ok |-> TRUE,
                   node |-> [node EXCEPT !.strokes[bindingIndex] = newVariable]]
        ELSE IF property = "effects" /\ "effects" \notin node.unlisted
        THEN IF bindingIndex > Len(node.effects) THEN failed
             ELSE [ok |-> TRUE,
                   node |-> [node EXCEPT !.effects[bindingIndex] = newVariable]]
        ELSE failed

\* -------------------------------------------------------------------- Init

NoMessage == [type |-> "none"]

\* The local state of an execution of the handler that has received no
\* message yet.
IdleLocals ==
    [ pc |-> "idle", msg |-> NoMessage, duplicates |-> <<>>, safeToMove |-> <<>>,
      idMapping |-> <<>>, i |-> 1, oldVariableIds |-> <<>>, allBindings |-> <<>>,
      createSuccessCount |-> 0, createErrorCount |-> 0,
      valueSuccessCount |-> 0, valueErrorCount |-> 0,
      rebindSuccessCount |-> 0, rebindErrorCount |-> 0, deleteCount |-> 0 ]

HandlerIdle ==
    /\ suspended = IdleLocals
    /\ pc = "idle"
    /\ msg = NoMessage
    /\ duplicates = <<>>
    /\ safeToMove = <<>>
    /\ idMapping = <<>>
    /\ i = 1
    /\ oldVariableIds = <<>>
    /\ allBindings = <<>>
    /\ createSuccessCount = 0 /\ createErrorCount = 0
    /\ valueSuccessCount = 0 /\ valueErrorCount = 0
    /\ rebindSuccessCount = 0 /\ rebindErrorCount = 0
    /\ deleteCount = 0
    /\ uiMessages = <<>>
    /\ notifications = <<>>
    /\ thrown = {}
    /\ userEdits = {}

Opens(doc) ==
    /\ variables = doc.variables
    /\ collections = doc.collections
    /\ nodes = doc.nodes
    /\ pages = doc.pages
    /\ nextId = 0
    /\ before = [variables |-> doc.variables, collections |-> doc.collections,
                 nodes |-> doc.nodes]

Init ==
    /\ \E doc \in Documents : Opens(doc)
    /\ HandlerIdle
    /\ candidates = <<>>
    /\ destinationNames = {}
    /\ partition = NoMessage

\* ---------------------------------------------------- 'move-variables'

\* The requests the UI may send.
CollectionPairs ==
    { <<SourceId, DestinationId>>, <<DestinationId, SourceId>>,
      <<NoCollectionId, DestinationId>>, <<SourceId, NoCollectionId>>,
      <<SourceId, SourceId>>,
      <<DeletedCollectionId, DestinationId>>, <<SourceId, DeletedCollectionId>> }

Selections == (SUBSET Originals) \cup {{GhostVar}}

Requests ==
    { [ type |-> "move-variables",
        sourceCollectionId |-> cp[1], destinationCollectionId |-> cp[2],
        selectedVariableIds |-> sel ] : cp \in CollectionPairs, sel \in Selections }

\* figma.notify and a 'move-error' message, then return.
Reject(note, message) ==
    /\ notifications' = Append(notifications, note)
    /\ uiMessages' = Append(uiMessages, [type |-> "move-error", message |-> message])
    /\ pc' = "done"
    /\ UNCHANGED <<duplicates, safeToMove>>

\* The variables of the source collection that are selected.
VariablesToMove(m) ==
    SelectSeq(GetVariablesInCollection(m.sourceCollectionId),
              LAMBDA v : v.id \in m.selectedVariableIds)

\* The outcome of a validation that lets the request through.
Passes == [note |-> "", message |-> ""]

\* A validation whose variables-not-found check reports the failure with the
\* notification and message of the collection-not-found check before it.
ValidationRepeatingMessage(m) ==
    LET variablesToMove == VariablesToMove(m)
        found == FindDuplicateNames(variablesToMove,
                     GetVariableNamesInCollection(m.destinationCollectionId))
    IN  IF m.sourceCollectionId = NoCollectionId
           \/ m.destinationCollectionId = NoCollectionId
        THEN [ note    |-> "Please select both source and destination collections!",
               message |-> "Please select both collections before moving." ]
        ELSE IF m.sourceCollectionId = m.destinationCollectionId
        THEN [ note    |-> "Source and destination cannot be the same!",
               message |-> "You cannot move variables to the same collection." ]
        ELSE IF m.selectedVariableIds = {}
        THEN [ note    |-> "No variables selected!",
               message |-> "Please select at least one variable to move." ]
        ELSE IF m.sourceCollectionId \notin DOMAIN collections
                \/ m.destinationCollectionId \notin DOMAIN collections
                \/ Len(variablesToMove) = 0
        THEN [ note    |-> "One of the collections no longer exists!",
               message |-> "Collection not found. It may have been deleted." ]
        ELSE IF Len(found.canMove) = 0
        THEN [ note    |-> "All selected variables have duplicate names!",
               message |-> "All selected variables already exist in the destination." ]
        ELSE Passes

\* src/code.js:515-583: the six checks of a request in the order the handler
\* makes them; the notification and the 'move-error' message of the first
\* check that fails, Passes when none does.
Validation(m) ==
    LET variablesToMove == VariablesToMove(m)
        found == FindDuplicateNames(variablesToMove,
                     GetVariableNamesInCollection(m.destinationCollectionId))
    IN  IF m.sourceCollectionId = NoCollectionId
           \/ m.destinationCollectionId = NoCollectionId
        THEN [ note    |-> "Please select both source and destination collections!",
               message |-> "Please select both collections before moving." ]
        ELSE IF m.sourceCollectionId = m.destinationCollectionId
        THEN [ note    |-> "Source and destination cannot be the same!",
               message |-> "You cannot move variables to the same collection." ]
        ELSE IF m.selectedVariableIds = {}
        THEN [ note    |-> "No variables selected!",
               message |-> "Please select at least one variable to move." ]
        ELSE IF m.sourceCollectionId \notin DOMAIN collections
                \/ m.destinationCollectionId \notin DOMAIN collections
        THEN [ note    |-> "One of the collections no longer exists!",
               message |-> "Collection not found. It may have been deleted." ]
        ELSE IF Len(variablesToMove) = 0
        THEN [ note    |-> "No valid variables to move!",
               message |-> "The selected variables could not be found." ]
        ELSE IF Len(found.canMove) = 0
        THEN [ note    |-> "All selected variables have duplicate names!",
               message |-> "All selected variables already exist in the destination." ]
        ELSE Passes

\* src/code.js:507-585: the validation of a request, up to Phase 1.
MoveVariables(m) ==
    /\ pc = "idle"
    /\ msg' = m
    /\ LET failure == Validation(m)
           found == FindDuplicateNames(VariablesToMove(m),
                        GetVariableNamesInCollection(m.destinationCollectionId))
       IN  IF failure # Passes
           THEN Reject(failure.note, failure.message)
           ELSE /\ duplicates' = found.duplicates
                /\ safeToMove' = found.canMove
                /\ notifications' = Append(notifications, "Moving variable(s)...")
                /\ pc' = "phase1"
                /\ UNCHANGED uiMessages
    /\ UNCHANGED <<document, idMapping, i, oldVariableIds, allBindings, counters,
                   thrown, before, userEdits, standalone, suspended>>

\* A host call throws: the run has used one of its MaxFaults failures.  The
\* record tells which call threw, for which variable, in which iteration.
Throw(call, id) == [call |-> call, id |-> id, index |-> i]

HostThrows(call, id) ==
    /\ Cardinality(thrown) < MaxFaults
    /\ thrown' = thrown \cup {Throw(call, id)}

\* A loop that ends after the iteration it is in, whatever is left of seq.
ContinueEndingLoop(seq, after) == i' = 1 /\ pc' = after

\* The end of one iteration of a loop over seq: the next iteration, or the
\* position that follows the loop.
Continue(seq, after) ==
    IF i < Len(seq)
    THEN i' = i + 1 /\ pc' = pc
    ELSE i' = 1 /\ pc' = after

\* A try/catch that encloses the whole loop: the failure of one item ends
\* the loop and the handler goes on with what follows it.
CaughtOutsideLoop(seq, after) == i' = 1 /\ pc' = after

\* The catch at the end of an iteration's try block: the failure is counted
\* or logged and the loop goes on with the next item.
Caught(seq, after) == Continue(seq, after)

Destination == msg.destinationCollectionId

\* A createVariable that takes every name.
HostRejectsNothing(name, collectionId) == FALSE

\* figma.variables.createVariable fails for a name a variable of the
\* collection already has: the error the duplicate detection is there to
\* avoid (README: "Detects duplicate names and skips them to avoid errors").
HostRejects(name, collectionId) ==
    name \in GetVariableNamesInCollection(collectionId)

\* The host adds a created variable to the document and to its collection.
HostCreates(newId, newVariable) ==
    /\ variables' = variables @@ (newId :> newVariable)
    /\ collections' = [collections EXCEPT ![newVariable.variableCollectionId].variableIds
                          = Append(@, newId)]
    /\ nextId' = nextId + 1

\* Phase 1, src/code.js:609-624, one iteration: the shell is created and
\* recorded in idMapping.
CreateShell ==
    /\ pc = "phase1"
    /\ safeToMove[i].id \in DOMAIN variables
    /\ ~HostRejects(variables[safeToMove[i].id].name, Destination)
    /\ LET originalVariable == safeToMove[i]
           newId == NewVar(nextId + 1)
       IN  /\ HostCreates(newId, CreateVariableInCollection(
                              variables[originalVariable.id], Destination, ""))
           /\ idMapping' = idMapping @@ (originalVariable.id :> newId)
    /\ createSuccessCount' = createSuccessCount + 1
    /\ Continue(safeToMove, "phase2")
    /\ UNCHANGED <<nodes, pages, msg, duplicates, safeToMove, oldVariableIds,
                   allBindings, createErrorCount, valueSuccessCount,
                   valueErrorCount, rebindSuccessCount, rebindErrorCount,
                   deleteCount, uiMessages, notifications, thrown, before, userEdits,
                   standalone, suspended>>

\* Phase 1, one iteration in which a host call of createVariableInCollection
\* throws: the catch counts the variable as failed and records no mapping.
\* When createVariable itself throws nothing was created; when a later call
\* throws the variable exists with the fields copied so far.
CreateShellThrows(stage) ==
    /\ pc = "phase1"
    /\ safeToMove[i].id \in DOMAIN variables
    /\ stage # "createVariable" =>
          ~HostRejects(variables[safeToMove[i].id].name, Destination)
    /\ HostThrows("create", safeToMove[i].id)
    /\ LET originalVariable == safeToMove[i]
           original == variables[originalVariable.id]
           newId == NewVar(nextId + 1)
       IN  /\ StageRuns(original, stage)
           /\ IF stage = "createVariable"
              THEN UNCHANGED <<variables, collections, nextId>>
              ELSE HostCreates(newId, CreateVariableInCollection(
                                   original, Destination, stage))
    /\ createErrorCount' = createErrorCount + 1
    /\ Caught(safeToMove, "phase2")
    /\ UNCHANGED <<nodes, pages, msg, duplicates, safeToMove, idMapping,
                   oldVariableIds, allBindings, createSuccessCount,
                   valueSuccessCount, valueErrorCount, rebindSuccessCount,
                   rebindErrorCount, deleteCount, uiMessages, notifications,
                   before, userEdits, standalone, suspended>>

\* Whether the objects the running Phase 2 iteration holds (originalVariable
\* from the validation, newVariable from idMapping) are still variables of
\* the document.  A variable lives in a collection, so a live shell has a
\* live destination collection.
HandlesLive ==
    safeToMove[i].id \in DOMAIN idMapping =>
        /\ safeToMove[i].id \in DOMAIN variables
        /\ idMapping[safeToMove[i].id] \in DOMAIN variables

\* Phase 2, src/code.js:643-662, one iteration.  A variable without a shell
\* counts as a value error; otherwise the values are copied; throwAt and
\* lookupThrowsAt as in CopyVariableValues.
CopyValuesStep(throwAt, lookupThrowsAt) ==
    /\ pc = "phase2"
    /\ HandlesLive
    /\ LET originalVariable == safeToMove[i]
       IN  IF originalVariable.id \notin DOMAIN idMapping
           THEN /\ throwAt = 0 /\ lookupThrowsAt = 0
                /\ valueErrorCount' = valueErrorCount + 1
                /\ UNCHANGED <<variables, valueSuccessCount>>
           ELSE LET newId == idMapping[originalVariable.id]
                    original == variables[originalVariable.id]
                IN  /\ throwAt # 0 =>
                          throwAt \in SetModes(original, Destination, idMapping)
                    /\ lookupThrowsAt # 0 =>
                          lookupThrowsAt \in LookupModes(original, Destination, idMapping)
                    /\ variables' = [variables EXCEPT ![newId].valuesByMode =
                          CopyVariableValues(original, variables[newId], Destination,
                                             idMapping, throwAt, lookupThrowsAt)]
                    /\ IF throwAt = 0
                       THEN /\ valueSuccessCount' = valueSuccessCount + 1
                            /\ UNCHANGED valueErrorCount
                       ELSE /\ valueErrorCount' = valueErrorCount + 1
                            /\ UNCHANGED valueSuccessCount
    /\ IF throwAt # 0
       THEN Caught(safeToMove, "locate")
       ELSE Continue(safeToMove, "locate")
    /\ UNCHANGED <<collections, nodes, pages, nextId, msg, duplicates, safeToMove,
                   idMapping, oldVariableIds, allBindings, createSuccessCount,
                   createErrorCount, rebindSuccessCount, rebindErrorCount,
                   deleteCount, uiMessages, notifications, before, userEdits, standalone, suspended>>

CopyValues == CopyValuesStep(0, 0) /\ UNCHANGED thrown

\* createVariableAlias or setValueForMode throws at destination mode m,
\* outside the try/catch of copyVariableValues: the modes before m are set
\* and the handler's catch counts a value error.
CopyValuesThrows(m) ==
    /\ pc = "phase2"
    /\ HostThrows("copy", safeToMove[i].id)
    /\ CopyValuesStep(m, 0)

\* getVariableByIdAsync, or the createVariableAlias or setValueForMode that
\* follows it in the same try block, throws at destination mode m:
\* copyVariableValues catches it, sets no value for that mode and goes on.
CopyValuesLookupThrows(m) ==
    /\ pc = "phase2"
    /\ HostThrows("lookup", safeToMove[i].id)
    /\ CopyValuesStep(0, m)

\* The identities of all selected variables of the source collection, the
\* blocked ones included.
SelectedKeys ==
    LET selected == VariablesToMove(msg)
    IN  [k \in 1..Len(selected) |-> selected[k].id]

\* The identities of all movable variables, with a shell or without.
MovableKeys == [k \in 1..Len(safeToMove) |-> safeToMove[k].id]

\* Object.keys(idMapping): the keys in the order they were inserted, which
\* is the order of safeToMove.
MappingKeys ==
    LET moved == SelectSeq(safeToMove, LAMBDA v : v.id \in DOMAIN idMapping)
    IN  [k \in 1..Len(moved) |-> moved[k].id]

Range(seq) == {seq[k] : k \in 1..Len(seq)}

\* Phase 3, src/code.js:671-672: the bindings to the moved originals.
FindBindings ==
    /\ pc = "locate"
    /\ oldVariableIds' = MappingKeys
    /\ allBindings' = FindAllVariableBindings(Range(MappingKeys))
    /\ i' = 1
    /\ pc' = IF Len(allBindings') > 0 THEN "phase3"
             ELSE IF Len(oldVariableIds') > 0 THEN "phase4" ELSE "send"
    /\ UNCHANGED <<document, msg, duplicates, safeToMove, idMapping, counters,
                   uiMessages, notifications, thrown, before, userEdits, standalone, suspended>>

\* page.loadAsync or page.findAll throws inside findAllVariableBindings:
\* nothing catches it, the handler's promise rejects and the handler never
\* reaches its later statements.
FindBindingsThrows ==
    /\ pc = "locate"
    /\ HostThrows("locate", NoVar)
    /\ Len(pages) > 0
    /\ oldVariableIds' = MappingKeys
    /\ pc' = "rejected"
    /\ UNCHANGED <<document, msg, duplicates, safeToMove, idMapping, i,
                   allBindings, counters, uiMessages, notifications, before, userEdits,
                   standalone, suspended>>

\* Whether rebindVariable reaches a host call for this binding.
RebindCallsHost(binding) ==
    LET node == nodes[binding.node]
    IN  IF ~binding.isArrayBinding
        THEN node.setBoundVariable
        ELSE /\ binding.property \in {"fills", "strokes", "effects"} \ node.unlisted
             /\ binding.bindingIndex <= Len(ListOf(node, binding.property))

\* Phase 3, src/code.js:679-701, one iteration.
RebindStep(throws) ==
    /\ pc = "phase3"
    /\ LET binding == allBindings[i]
       IN  IF binding.variableId \notin DOMAIN idMapping
           THEN /\ ~throws
                /\ rebindErrorCount' = rebindErrorCount + 1
                /\ UNCHANGED <<nodes, rebindSuccessCount>>
           ELSE LET r == RebindVariable(nodes[binding.node], binding.property,
                                        idMapping[binding.variableId],
                                        binding.bindingIndex,
                                        binding.isArrayBinding, throws)
                IN  /\ throws => RebindCallsHost(binding)
                    /\ nodes' = [nodes EXCEPT ![binding.node] = r.node]
                    /\ IF r.ok
                       THEN /\ rebindSuccessCount' = rebindSuccessCount + 1
                            /\ UNCHANGED rebindErrorCount
                       ELSE /\ rebindErrorCount' = rebindErrorCount + 1
                            /\ UNCHANGED rebindSuccessCount
    /\ Continue(allBindings, "phase4")
    /\ UNCHANGED <<variables, collections, pages, nextId, msg, duplicates,
                   safeToMove, idMapping, oldVariableIds, allBindings,
                   createSuccessCount, createErrorCount, valueSuccessCount,
                   valueErrorCount, deleteCount, uiMessages, notifications,
                   before, userEdits, standalone, suspended>>

Rebind == RebindStep(FALSE) /\ UNCHANGED thrown

\* A host call of rebindVariable throws: its catch returns false.
RebindThrows ==
    /\ pc = "phase3"
    /\ HostThrows("rebind", allBindings[i].variableId)
    /\ RebindStep(TRUE)

\* A removal that leaves a variable in place while a node is bound to it.
HostRemovesUnlessBound(id) ==
    IF \E n \in 1..Len(nodes) :
          \/ \E k \in 1..Len(nodes[n].bound) : nodes[n].bound[k] = id
          \/ \E q \in 1..Len(ListProperties) :
                \E j \in 1..Len(ListOf(nodes[n], ListProperties[q])) :
                    ListOf(nodes[n], ListProperties[q])[j] = id
    THEN UNCHANGED <<variables, collections>>
    ELSE /\ variables' = [v \in DOMAIN variables \ {id} |-> variables[v]]
         /\ collections' = [c \in DOMAIN collections |->
               [collections[c] EXCEPT !.variableIds = SelectSeq(@, LAMBDA v : v # id)]]

\* variable.remove(): the host drops the variable from the document and
\* from its collection; values and bindings that refer to it are not touched.
HostRemoves(id) ==
    /\ variables' = [v \in DOMAIN variables \ {id} |-> variables[v]]
    /\ collections' = [c \in DOMAIN collections |->
          [collections[c] EXCEPT !.variableIds = SelectSeq(@, LAMBDA v : v # id)]]

\* Phase 4, src/code.js:712-722, one iteration.
DeleteOriginal ==
    /\ pc = "phase4"
    /\ LET oldVariableId == oldVariableIds[i]
       IN  IF oldVariableId \in DOMAIN variables
           THEN /\ HostRemoves(oldVariableId)
                /\ deleteCount' = deleteCount + 1
           ELSE UNCHANGED <<variables, collections, deleteCount>>
    /\ Continue(oldVariableIds, "send")
    /\ UNCHANGED <<nodes, pages, nextId, msg, duplicates, safeToMove, idMapping,
                   oldVariableIds, allBindings, createSuccessCount,
                   createErrorCount, valueSuccessCount, valueErrorCount,
                   rebindSuccessCount, rebindErrorCount, uiMessages,
                   notifications, thrown, before, userEdits, standalone, suspended>>

\* getVariableByIdAsync or remove throws: the catch logs it.
DeleteOriginalThrows ==
    /\ pc = "phase4"
    /\ HostThrows("delete", oldVariableIds[i])
    /\ Caught(oldVariableIds, "send")
    /\ UNCHANGED <<document, msg, duplicates, safeToMove, idMapping,
                   oldVariableIds, allBindings, counters, uiMessages,
                   notifications, before, userEdits, standalone, suspended>>

\* destinationCollection.name, read from the object the handler fetched at
\* code.js:544: the name of the collection, or the name it had when the
\* collection is no longer in the document.
DestinationName ==
    IF Destination \in DOMAIN collections
    THEN collections[Destination].name
    ELSE before.collections[Destination].name

\* A summary that reports the value-copy failures as its errorCount.
MoveCompleteCountingValueErrors ==
    [ type               |-> "move-complete",
      successCount       |-> createSuccessCount,
      errorCount         |-> valueErrorCount,
      skippedCount       |-> Len(duplicates),
      rebindSuccessCount |-> rebindSuccessCount,
      rebindErrorCount   |-> rebindErrorCount,
      deletedCount       |-> deleteCount,
      destinationName    |-> DestinationName ]

\* src/code.js:739-748: the 'move-complete' message.
MoveComplete ==
    [ type               |-> "move-complete",
      successCount       |-> createSuccessCount,
      errorCount         |-> createErrorCount,
      skippedCount       |-> Len(duplicates),
      rebindSuccessCount |-> rebindSuccessCount,
      rebindErrorCount   |-> rebindErrorCount,
      deletedCount       |-> deleteCount,
      destinationName    |-> DestinationName ]

\* src/code.js:729-748: the summary notification and 'move-complete'.
SendResults ==
    /\ pc = "send"
    /\ Destination \in DOMAIN collections
    /\ notifications' = Append(notifications, "Moved variable(s)")
    /\ uiMessages' = Append(uiMessages, MoveComplete)
    /\ pc' = "done"
    /\ UNCHANGED <<document, msg, duplicates, safeToMove, idMapping, i,
                   oldVariableIds, allBindings, counters, thrown, before, userEdits,
                   standalone, suspended>>

Next ==
    \/ \E m \in Requests : MoveVariables(m)
    \/ CreateShell
    \/ \E stage \in Range(CreateStages) : CreateShellThrows(stage)
    \/ CopyValues
    \/ \E m \in 1..MaxModes : CopyValuesThrows(m)
    \/ \E m \in 1..MaxModes : CopyValuesLookupThrows(m)
    \/ FindBindings
    \/ FindBindingsThrows
    \/ Rebind
    \/ RebindThrows
    \/ DeleteOriginal
    \/ DeleteOriginalThrows
    \/ SendResults

Spec == Init /\ [][Next]_vars

\* ------------------------------------------- findDuplicateNames on its own

\* The candidate sequences: up to MaxCandidates variables with names drawn
\* from Names; the identity of a candidate is its position in the input.
CandidateSequences ==
    UNION { { [k \in 1..n |-> [id |-> SourceVar(k), name |-> names[k]]] :
                names \in [1..n -> Names] } : n \in 0..MaxCandidates }

PartitionInit ==
    /\ Opens(Document(PlainVariables(1), 1, 1, {}, NoNodes, EmptyPage))
    /\ HandlerIdle
    /\ candidates \in CandidateSequences
    /\ destinationNames \in SUBSET Names
    /\ partition = NoMessage

\* One call of findDuplicateNames(candidates, destinationNames).
Partition ==
    /\ partition = NoMessage
    /\ partition' = FindDuplicateNames(candidates, destinationNames)
    /\ UNCHANGED <<document, handler, thrown, before, userEdits, candidates,
                   destinationNames, suspended>>

PartitionNext == Partition

PartitionSpec == PartitionInit /\ [][PartitionNext]_vars

\* -------------------------------- a user who edits layers during the run

\* seq without its j-th entry.
WithoutEntry(seq, j) ==
    [k \in 1..(Len(seq) - 1) |-> IF k < j THEN seq[k] ELSE seq[k + 1]]

\* The list properties rebindVariable writes.
PaintLists == {"fills", "strokes", "effects"}

\* While the handler waits in the Phase 3 loop (code.js:687), the user
\* removes the j-th entry of a list of a layer: the list the handler located
\* its bindings in is now shorter.  The user makes at most one edit in a run.
UserRemovesEntry(n, property, j) ==
    /\ pc = "phase3"
    /\ userEdits = {}
    /\ j \in 1..Len(ListOf(nodes[n], property))
    /\ nodes' = [nodes EXCEPT ![n] =
          CASE property = "fills"   -> [@ EXCEPT !.fills = WithoutEntry(@, j)]
            [] property = "strokes" -> [@ EXCEPT !.strokes = WithoutEntry(@, j)]
            [] property = "effects" -> [@ EXCEPT !.effects = WithoutEntry(@, j)]]
    /\ userEdits' = {[edit |-> "remove", node |-> n, property |-> property, index |-> j]}
    /\ UNCHANGED <<variables, collections, pages, nextId, handler, thrown, before,
                   standalone, suspended>>

\* While the handler waits in the Phase 3 loop, the user changes a layer so
\* that a list property of it is no list any more.
UserUnlists(n, property) ==
    /\ pc = "phase3"
    /\ userEdits = {}
    /\ Len(ListOf(nodes[n], property)) > 0
    /\ property \notin nodes[n].unlisted
    /\ nodes' = [nodes EXCEPT ![n].unlisted = @ \cup {property}]
    /\ userEdits' = {[edit |-> "unlist", node |-> n, property |-> property, index |-> 0]}
    /\ UNCHANGED <<variables, collections, pages, nextId, handler, thrown, before,
                   standalone, suspended>>

\* Documents with layers, and documents with an alias.
EditDocuments ==
    BindingDocuments
    \cup { Document(vs, 1, 1, {}, NoNodes, EmptyPage) : vs \in AliasVariables(1) }

EditInit ==
    /\ \E doc \in EditDocuments : Opens(doc)
    /\ HandlerIdle
    /\ candidates = <<>>
    /\ destinationNames = {}
    /\ partition = NoMessage

EditNext ==
    \/ Next
    \/ \E n \in 1..Len(nodes) : \E property \in PaintLists :
          \E j \in 1..Len(ListOf(nodes[n], property)) : UserRemovesEntry(n, property, j)
    \/ \E n \in 1..Len(nodes) : \E property \in PaintLists : UserUnlists(n, property)

EditSpec == EditInit /\ [][EditNext]_vars

\* ----------------------- someone who deletes variables during the run

\* The handler between two phases: before the first iteration of Phase 2,
\* before Phase 3 locates the bindings, before the first iteration of Phase 4.
AtPhaseBoundary ==
    \/ pc = "phase2" /\ i = 1
    \/ pc = "locate"
    \/ pc = "phase4" /\ i = 1

\* The new variables idMapping holds.
ShellIds == {idMapping[id] : id \in DOMAIN idMapping}

Deletion(entity, id, collectionId) ==
    [edit |-> "delete", entity |-> entity, variable |-> id, collection |-> collectionId]

\* While the handler waits between two phases, someone else deletes a shell
\* or a moved original.  There is at most one such deletion in a run.
ExternalDeletesVariable(entity, id) ==
    /\ AtPhaseBoundary
    /\ userEdits = {}
    /\ id \in DOMAIN variables
    /\ \/ entity = "shell" /\ id \in ShellIds
       \/ entity = "original" /\ id \in DOMAIN idMapping
    /\ HostRemoves(id)
    /\ userEdits' = {Deletion(entity, id, NoCollectionId)}
    /\ UNCHANGED <<nodes, pages, nextId, handler, thrown, before, standalone, suspended>>

\* While the handler waits between two phases, someone else deletes the
\* source or the destination collection, and with it its variables.
ExternalDeletesCollection(collectionId) ==
    /\ AtPhaseBoundary
    /\ userEdits = {}
    /\ collectionId \in DOMAIN collections
    /\ collectionId \in {msg.sourceCollectionId, msg.destinationCollectionId}
    /\ variables' = [id \in {v \in DOMAIN variables :
                               variables[v].variableCollectionId # collectionId}
                        |-> variables[id]]
    /\ collections' = [c \in DOMAIN collections \ {collectionId} |-> collections[c]]
    /\ userEdits' = {Deletion("collection", NoVar, collectionId)}
    /\ UNCHANGED <<nodes, pages, nextId, handler, thrown, before, standalone, suspended>>

\* Phase 2, src/code.js:643-662, one iteration in which originalVariable or
\* newVariable is no longer in the document.  The handler holds both objects
\* and calls copyVariableValues with them as they are.  What the host does
\* with a call on such an object the code does not determine: it throws
\* (the catch counts a value error), or it serves the object as it last was
\* (the values are read from the original as it was; they are set if the
\* shell is still there and go nowhere if it is not).
CopyValuesStale(hostThrows) ==
    /\ pc = "phase2"
    /\ ~HandlesLive
    /\ LET originalVariable == safeToMove[i]
           newId == idMapping[originalVariable.id]
       IN  IF hostThrows
           THEN /\ valueErrorCount' = valueErrorCount + 1
                /\ UNCHANGED <<variables, valueSuccessCount>>
           ELSE /\ valueSuccessCount' = valueSuccessCount + 1
                /\ UNCHANGED valueErrorCount
                /\ IF newId \in DOMAIN variables
                   THEN variables' = [variables EXCEPT ![newId].valuesByMode =
                           CopyVariableValues(before.variables[originalVariable.id],
                                              variables[newId], Destination,
                                              idMapping, 0, 0)]
                   ELSE UNCHANGED variables
    /\ IF hostThrows
       THEN Caught(safeToMove, "locate")
       ELSE Continue(safeToMove, "locate")
    /\ UNCHANGED <<collections, nodes, pages, nextId, msg, duplicates, safeToMove,
                   idMapping, oldVariableIds, allBindings, createSuccessCount,
                   createErrorCount, rebindSuccessCount, rebindErrorCount,
                   deleteCount, uiMessages, notifications, thrown, before,
                   userEdits, standalone, suspended>>

\* Phase 3, one iteration whose newVariable is no longer in the document and
\* for which the host call of rebindVariable throws: its catch returns false.
\* (When the host takes the object as it is, the iteration is Rebind.)
RebindStale ==
    /\ pc = "phase3"
    /\ allBindings[i].variableId \in DOMAIN idMapping
    /\ idMapping[allBindings[i].variableId] \notin DOMAIN variables
    /\ RebindStep(TRUE)
    /\ UNCHANGED thrown

\* src/code.js:729-748 when the destination collection is no longer in the
\* document.  destinationCollection.name is read at line 731, outside any
\* try: the host throws and the handler's promise rejects before anything
\* is posted, or it serves the name the collection had.
SendResultsStale(hostThrows) ==
    /\ pc = "send"
    /\ Destination \notin DOMAIN collections
    /\ IF hostThrows
       THEN /\ pc' = "rejected"
            /\ UNCHANGED <<notifications, uiMessages>>
       ELSE /\ notifications' = Append(notifications, "Moved variable(s)")
            /\ uiMessages' = Append(uiMessages, MoveComplete)
            /\ pc' = "done"
    /\ UNCHANGED <<document, msg, duplicates, safeToMove, idMapping, i,
                   oldVariableIds, allBindings, counters, thrown, before, userEdits,
                   standalone, suspended>>

ExternalNext ==
    \/ Next
    \/ \E id \in DOMAIN variables : ExternalDeletesVariable("shell", id)
    \/ \E id \in DOMAIN variables : ExternalDeletesVariable("original", id)
    \/ \E c \in DOMAIN collections : ExternalDeletesCollection(c)
    \/ \E hostThrows \in BOOLEAN : CopyValuesStale(hostThrows)
    \/ RebindStale
    \/ \E hostThrows \in BOOLEAN : SendResultsStale(hostThrows)

ExternalSpec == EditInit /\ [][ExternalNext]_vars

\* ------------------------------- two executions of the handler at once

\* The local state of the running execution.
Locals ==
    [ pc |-> pc, msg |-> msg, duplicates |-> duplicates, safeToMove |-> safeToMove,
      idMapping |-> idMapping, i |-> i, oldVariableIds |-> oldVariableIds,
      allBindings |-> allBindings,
      createSuccessCount |-> createSuccessCount, createErrorCount |-> createErrorCount,
      valueSuccessCount |-> valueSuccessCount, valueErrorCount |-> valueErrorCount,
      rebindSuccessCount |-> rebindSuccessCount, rebindErrorCount |-> rebindErrorCount,
      deleteCount |-> deleteCount ]

\* The running execution is at an await of the Phase 1 loop or between two
\* phases, or it has ended.  (The handler also awaits inside the loops of
\* Phases 2 to 4; the executions are interleaved at the awaits of Phase 1,
\* where names are created, and between the phases.)
AtAwait == pc = "phase1" \/ AtPhaseBoundary \/ pc \in {"done", "rejected"}

\* figma.ui.on('message', async ...): the handler is called for every
\* message and nothing keeps a second message from being handled while an
\* execution waits at an await.  The running execution yields and the other
\* one, which has not ended, goes on from where it stopped (from the arrival
\* of its message when it has not started).
Switch ==
    /\ AtAwait
    /\ suspended.pc \notin {"done", "rejected"}
    /\ suspended' = Locals
    /\ pc' = suspended.pc
    /\ msg' = suspended.msg
    /\ duplicates' = suspended.duplicates
    /\ safeToMove' = suspended.safeToMove
    /\ idMapping' = suspended.idMapping
    /\ i' = suspended.i
    /\ oldVariableIds' = suspended.oldVariableIds
    /\ allBindings' = suspended.allBindings
    /\ createSuccessCount' = suspended.createSuccessCount
    /\ createErrorCount' = suspended.createErrorCount
    /\ valueSuccessCount' = suspended.valueSuccessCount
    /\ valueErrorCount' = suspended.valueErrorCount
    /\ rebindSuccessCount' = suspended.rebindSuccessCount
    /\ rebindErrorCount' = suspended.rebindErrorCount
    /\ deleteCount' = suspended.deleteCount
    /\ UNCHANGED <<document, uiMessages, notifications, thrown, before, userEdits,
                   standalone>>

\* Phase 1, one iteration for a name the destination holds by now (the
\* other execution has created it since the duplicate check of this one):
\* createVariable throws and the catch counts the variable as failed.
CreateShellRejected ==
    /\ pc = "phase1"
    /\ safeToMove[i].id \in DOMAIN variables
    /\ HostRejects(variables[safeToMove[i].id].name, Destination)
    /\ createErrorCount' = createErrorCount + 1
    /\ Caught(safeToMove, "phase2")
    /\ UNCHANGED <<document, msg, duplicates, safeToMove, idMapping,
                   oldVariableIds, allBindings, createSuccessCount,
                   valueSuccessCount, valueErrorCount, rebindSuccessCount,
                   rebindErrorCount, deleteCount, uiMessages, notifications,
                   thrown, before, userEdits, standalone, suspended>>

\* Phase 1, one iteration for an original the other execution has removed
\* in its Phase 4.  That execution removes an original only after it has
\* created a shell of the same name in the destination, so whether the host
\* throws for the removed original or serves its last name to createVariable,
\* the call fails and the catch counts the variable as failed.
CreateShellStale ==
    /\ pc = "phase1"
    /\ safeToMove[i].id \notin DOMAIN variables
    /\ createErrorCount' = createErrorCount + 1
    /\ Caught(safeToMove, "phase2")
    /\ UNCHANGED <<document, msg, duplicates, safeToMove, idMapping,
                   oldVariableIds, allBindings, createSuccessCount,
                   valueSuccessCount, valueErrorCount, rebindSuccessCount,
                   rebindErrorCount, deleteCount, uiMessages, notifications,
                   thrown, before, userEdits, standalone, suspended>>

\* A document with an alias to a variable that may stay behind, a layer
\* bound to the first original, and a resident with the name of the third.
RaceDocuments ==
    { Document(WithAlias(PlainVariables(1), <<1, 1, V2>>), 1, 1, {3},
               <<Node(TRUE, <<V1, NoVar>>, <<>>, <<>>, <<>>, <<>>)>>, << <<1>> >>) }

RaceInit ==
    /\ \E doc \in RaceDocuments : Opens(doc)
    /\ HandlerIdle
    /\ candidates = <<>>
    /\ destinationNames = {}
    /\ partition = NoMessage

\* The requests of the two executions: both move variables of the source
\* collection to the destination collection, each with a selection of its own.
RaceRequests ==
    { m \in Requests : /\ m.sourceCollectionId = SourceId
                       /\ m.destinationCollectionId = DestinationId }

RaceNext ==
    \/ \E m \in RaceRequests : MoveVariables(m)
    \/ CreateShell
    \/ \E stage \in Range(CreateStages) : CreateShellThrows(stage)
    \/ CopyValues
    \/ \E m \in 1..MaxModes : CopyValuesThrows(m)
    \/ \E m \in 1..MaxModes : CopyValuesLookupThrows(m)
    \/ FindBindings
    \/ FindBindingsThrows
    \/ Rebind
    \/ RebindThrows
    \/ DeleteOriginal
    \/ DeleteOriginalThrows
    \/ SendResults
    \/ Switch
    \/ CreateShellRejected
    \/ CreateShellStale

RaceSpec == RaceInit /\ [][RaceNext]_vars

\* ------------------------------------------------ 'get-variables-preview'

\* The collections the UI may ask a preview of.
PreviewRequests ==
    { [type |-> "get-variables-preview", collectionId |-> c] :
        c \in {SourceId, DestinationId, DeletedCollectionId} }

\* src/code.js:427-445: the variables of the collection with their display
\* type, and their count.
GetVariablesPreview(m) ==
    /\ pc = "idle"
    /\ msg' = m
    /\ LET vs == GetVariablesInCollection(m.collectionId)
           preview == [k \in 1..Len(vs) |->
                          [ id          |-> vs[k].id,
                            name        |-> vs[k].name,
                            type        |-> GetDisplayTypeName(variables[vs[k].id].resolvedType),
                            description |-> variables[vs[k].id].description ]]
       IN  uiMessages' = Append(uiMessages,
               [type |-> "variables-preview", variables |-> preview, count |-> Len(preview)])
    /\ pc' = "done"
    /\ UNCHANGED <<document, duplicates, safeToMove, idMapping, i, oldVariableIds,
                   allBindings, counters, notifications, thrown, before, userEdits, standalone, suspended>>

PreviewNext == \E m \in PreviewRequests : GetVariablesPreview(m)

PreviewSpec == Init /\ [][PreviewNext]_vars

\* ------------------------------------------------------------------ claims

IsSubsequenceInOrder(out) ==
    \A j, k \in 1..Len(out) : j < k => out[j].id[2] < out[k].id[2]

\* C8: findDuplicateNames puts a candidate in duplicates if and only if its
\* exact name is in the destination name set and in canMove otherwise; every
\* candidate lands in exactly one output; both outputs keep the input order;
\* a collision-free input yields no duplicate and an all-colliding input
\* yields no movable candidate.
C8_PartitionByExactName ==
    partition # NoMessage =>
        LET blocked == partition.duplicates
            movable == partition.canMove
        IN  /\ \A k \in 1..Len(candidates) :
                  /\ candidates[k] \in Range(blocked)
                        <=> candidates[k].name \in destinationNames
                  /\ candidates[k] \in Range(movable)
                        <=> candidates[k].name \notin destinationNames
            /\ Len(blocked) + Len(movable) = Len(candidates)
            /\ Range(blocked) \cup Range(movable) = Range(candidates)
            /\ Range(blocked) \cap Range(movable) = {}
            /\ IsSubsequenceInOrder(blocked)
            /\ IsSubsequenceInOrder(movable)
            /\ (\A k \in 1..Len(candidates) : candidates[k].name \notin destinationNames)
                  => blocked = <<>> /\ movable = candidates
            /\ (\A k \in 1..Len(candidates) : candidates[k].name \in destinationNames)
                  => movable = <<>> /\ blocked = candidates

\* A call that blocks two candidates and moves one between them, whose name
\* differs from a destination name only in case.
C8_Witness ==
    /\ partition # NoMessage
    /\ Len(candidates) = 3
    /\ "Base" \in destinationNames /\ "base" \notin destinationNames
    /\ candidates[2].name = "base"
    /\ Len(partition.duplicates) = 2
    /\ partition.canMove = <<candidates[2]>>

\* The run has ended with a completion summary.
Completed ==
    /\ pc = "done"
    /\ uiMessages # <<>>
    /\ uiMessages[Len(uiMessages)].type = "move-complete"

Summary == uiMessages[Len(uiMessages)]

Selected == msg.selectedVariableIds

BeforeModes(id) == 1..Len(before.variables[id].valuesByMode)
BeforeValue(id, m) == before.variables[id].valuesByMode[m]

\* The value the shell of original id holds at destination mode m.
ShellValue(id, m) == variables[idMapping[id]].valuesByMode[m]

HasShell(id) == id \in DOMAIN idMapping /\ idMapping[id] \in DOMAIN variables

Threw(call, id) == \E t \in thrown : t.call = call /\ t.id = id

AliasToUnmovedKept(a, b, m) ==
    /\ ShellValue(b, m) = Alias(a)
    /\ a \in DOMAIN variables
    /\ variables[a] = before.variables[a]
    /\ a \in Range(collections[msg.sourceCollectionId].variableIds)

NoItemFailed ==
    /\ thrown = {}
    /\ createErrorCount = 0 /\ valueErrorCount = 0 /\ rebindErrorCount = 0

\* C3: after a completed run with no per-item failure, every alias value
\* held by a variable of the document resolves to an existing variable
\* (aliases that were broken before the run aside).
C3_EveryAliasResolves ==
    (Completed /\ NoItemFailed) =>
        \A id \in DOMAIN variables :
            \A m \in 1..Len(variables[id].valuesByMode) :
                LET v == variables[id].valuesByMode[m]
                IN  (IsAlias(v) /\ v.id # GhostVar) => v.id \in DOMAIN variables

\* The scalar properties and the entries of a list property that node n
\* bound to variable id before the run.
ScalarsBoundTo(n, id) ==
    {k \in 1..Len(ScalarProperties) : before.nodes[n].bound[k] = id}

EntriesBoundTo(n, property, id) ==
    {j \in 1..Len(ListOf(before.nodes[n], property)) :
        ListOf(before.nodes[n], property)[j] = id}

NodeIds == 1..Len(nodes)

\* Every scalar and every fills binding to id now refers to id's shell.
ScalarAndFillsRebound(id) ==
    \A n \in NodeIds :
        /\ \A k \in ScalarsBoundTo(n, id) : nodes[n].bound[k] = idMapping[id]
        /\ \A j \in EntriesBoundTo(n, "fills", id) :
              j <= Len(nodes[n].fills) /\ nodes[n].fills[j] = idMapping[id]

\* Nothing but scalar properties and fills entries was bound to id.
OnlyScalarAndFillsBound(id) ==
    \A n \in NodeIds :
        \A property \in {"strokes", "effects", "layoutGrids"} :
            EntriesBoundTo(n, property, id) = {}

BindingsKept(id) ==
    \A n \in NodeIds :
        /\ \A k \in ScalarsBoundTo(n, id) : nodes[n].bound[k] = id
        /\ \A k \in 1..Len(ListProperties) :
              \A j \in EntriesBoundTo(n, ListProperties[k], id) :
                  /\ j <= Len(ListOf(nodes[n], ListProperties[k]))
                  /\ ListOf(nodes[n], ListProperties[k])[j] = id

\* C5: if Phase 1 creation fails for X, X is never deleted, no binding to X
\* is located or rebound, and X has no entry in the identity map.
C5_FailedCreationExcludesVariable ==
    \A id \in Originals :
        Threw("create", id) =>
            /\ id \in DOMAIN variables
            /\ variables[id] = before.variables[id]
            /\ id \in Range(collections[msg.sourceCollectionId].variableIds)
            /\ id \notin DOMAIN idMapping
            /\ id \notin Range(oldVariableIds)
            /\ \A k \in 1..Len(allBindings) : allBindings[k].variableId # id
            /\ BindingsKept(id)

\* The creation of the first original failed; the run went on to move and
\* delete another variable, and a node is still bound to the first.
C5_Witness ==
    /\ Completed
    /\ Threw("create", V1)
    /\ Summary.deletedCount >= 1
    /\ Summary.rebindSuccessCount >= 1
    /\ \E n \in NodeIds : ScalarsBoundTo(n, V1) # {}
    /\ V1 \in DOMAIN variables

ResolvedSelection(m) ==
    { id \in m.selectedVariableIds :
        /\ id \in DOMAIN before.variables
        /\ before.variables[id].variableCollectionId = m.sourceCollectionId
        /\ id \in Range(before.collections[m.sourceCollectionId].variableIds) }

NamesBefore(collectionId) ==
    { before.variables[id].name :
        id \in Range(before.collections[collectionId].variableIds)
               \cap DOMAIN before.variables }

Blocked(m) ==
    { id \in ResolvedSelection(m) :
        before.variables[id].name \in NamesBefore(m.destinationCollectionId) }

FailsValidation(m) ==
    \/ m.sourceCollectionId = NoCollectionId
    \/ m.destinationCollectionId = NoCollectionId
    \/ m.sourceCollectionId = m.destinationCollectionId
    \/ m.selectedVariableIds = {}
    \/ m.sourceCollectionId \notin DOMAIN before.collections
    \/ m.destinationCollectionId \notin DOMAIN before.collections
    \/ ResolvedSelection(m) = {}
    \/ Blocked(m) = ResolvedSelection(m)

DocumentUntouched ==
    /\ variables = before.variables
    /\ collections = before.collections
    /\ nodes = before.nodes
    /\ nextId = 0

\* C6: a request that fails validation changes nothing in the document and
\* is answered by an error response, never by a completion response.
C6_FailedValidationChangesNothing ==
    (msg # NoMessage /\ FailsValidation(msg)) =>
        /\ DocumentUntouched
        /\ pc = "done"
        /\ Len(uiMessages) = 1
        /\ uiMessages[1].type = "move-error"

\* Every selected variable is blocked by a name in the destination: the
\* request is refused and the document is as before.
C6_Witness ==
    /\ msg # NoMessage
    /\ msg.sourceCollectionId = SourceId /\ msg.destinationCollectionId = DestinationId
    /\ ResolvedSelection(msg) # {}
    /\ Blocked(msg) = ResolvedSelection(msg)
    /\ uiMessages = << [ type |-> "move-error",
          message |-> "All selected variables already exist in the destination." ] >>
    /\ DocumentUntouched

\* C7: skippedCount is the number of resolved selected variables whose name
\* is already in the destination, successCount + errorCount is the number
\* of movable ones, and successCount is that number when no creation fails.
C7_SummaryCountsMatchPartition ==
    Completed =>
        LET movable == ResolvedSelection(msg) \ Blocked(msg)
        IN  /\ Summary.skippedCount = Cardinality(Blocked(msg))
            /\ Summary.successCount + Summary.errorCount = Cardinality(movable)
            /\ (\A id \in movable : ~Threw("create", id))
                  => Summary.successCount = Cardinality(movable)

\* Three selected, one of them blocked: successCount 2 and skippedCount 1.
C7_Witness ==
    /\ Completed
    /\ Cardinality(Selected) = 3
    /\ Cardinality(Blocked(msg)) = 1
    /\ Summary.successCount = 2
    /\ Summary.errorCount = 0
    /\ Summary.skippedCount = 1

SameMetadata(new, old) ==
    /\ new.name = old.name
    /\ new.resolvedType = old.resolvedType
    /\ new.description = old.description
    /\ new.hiddenFromPublishing = old.hiddenFromPublishing
    /\ new.scopes = old.scopes
    /\ new.codeSyntax = old.codeSyntax

\* C9: every shell recorded in the identity map has the original's name,
\* resolved type, description, hidden-from-publishing flag, scope set and
\* code syntax.
C9_ShellHasOriginalsMetadata ==
    \A id \in DOMAIN idMapping :
        HasShell(id) => SameMetadata(variables[idMapping[id]], before.variables[id])

\* The variables the destination held before the run whose name is name.
ResidentsNamed(name) ==
    { d \in Range(before.collections[msg.destinationCollectionId].variableIds)
             \cap DOMAIN before.variables : before.variables[d].name = name }

\* The variables the destination holds now whose name is name.
DestinationNamed(name) ==
    { d \in Range(collections[msg.destinationCollectionId].variableIds)
             \cap DOMAIN variables : variables[d].name = name }

\* C11: for every selected variable whose name is already in the
\* destination, after the run the variable is still in the source collection
\* with unchanged metadata and values, no shell was created for it, no
\* binding to it was rewritten, and the destination variable of the same
\* name is unchanged.
C11_NameConflictExcludes ==
    Completed =>
        \A id \in Blocked(msg) :
            /\ id \in DOMAIN variables
            /\ variables[id] = before.variables[id]
            /\ id \in Range(collections[msg.sourceCollectionId].variableIds)
            /\ id \notin DOMAIN idMapping
            /\ DestinationNamed(before.variables[id].name)
                  = ResidentsNamed(before.variables[id].name)
            /\ \A d \in ResidentsNamed(before.variables[id].name) :
                  variables[d] = before.variables[d]
            /\ BindingsKept(id)

\* The third original is blocked by a resident of its name while the first
\* is moved and rebound; a node bound to both keeps its binding to the third.
C11_Witness ==
    /\ Completed
    /\ Selected = {V1, V3}
    /\ Blocked(msg) = {V3}
    /\ Summary.successCount = 1 /\ Summary.skippedCount = 1
    /\ V1 \notin DOMAIN variables
    /\ \E n \in NodeIds :
          /\ before.nodes[n].bound = <<V1, V3>>
          /\ nodes[n].bound = <<idMapping[V1], V3>>

\* Which of the six checks a request fails first, in the handler's order (0
\* when it passes them all): 1 a missing collection selection, 2 identical
\* source and destination, 3 an empty selection, 4 a collection that is not
\* found, 5 no selected variable resolved, 6 every selected variable blocked.
FailureKind(m) ==
    IF m.sourceCollectionId = NoCollectionId \/ m.destinationCollectionId = NoCollectionId
    THEN 1
    ELSE IF m.sourceCollectionId = m.destinationCollectionId THEN 2
    ELSE IF m.selectedVariableIds = {} THEN 3
    ELSE IF m.sourceCollectionId \notin DOMAIN before.collections
            \/ m.destinationCollectionId \notin DOMAIN before.collections
    THEN 4
    ELSE IF ResolvedSelection(m) = {} THEN 5
    ELSE IF Blocked(m) = ResolvedSelection(m) THEN 6
    ELSE 0

\* The requests that fail with each kind on the document as it was.
RequestsOfKind(kind) == {m \in Requests : FailureKind(m) = kind}

\* C12: a request that fails one of the six validation checks is answered by
\* exactly one error response, and every request that fails with another
\* kind on the same document is answered by a different message.
C12_OneDistinctErrorPerFailure ==
    (msg # NoMessage /\ FailureKind(msg) # 0) =>
        /\ pc = "done"
        /\ Len(uiMessages) = 1
        /\ uiMessages[1].type = "move-error"
        /\ uiMessages[1].message # ""
        /\ \A other \in Requests :
              FailureKind(other) \notin {0, FailureKind(msg)}
                 => Validation(other).message # uiMessages[1].message

\* A request whose selection resolves to no variable of the source is
\* refused, on a document on which a request of the sixth kind exists too.
C12_Witness ==
    /\ msg # NoMessage
    /\ FailureKind(msg) = 5
    /\ msg.selectedVariableIds = {GhostVar}
    /\ Len(uiMessages) = 1
    /\ uiMessages[1].type = "move-error"
    /\ RequestsOfKind(6) # {}

Previewed == pc = "done" /\ msg.type = "get-variables-preview"

\* C13: the display type of every previewed variable is NUMBER when the
\* host's type tag is FLOAT and the tag itself otherwise, and normalizing a
\* display type again changes nothing, for the previewed types and for
\* every type tag.
C13_DisplayTypeNormalizedOnce ==
    Previewed =>
        LET preview == uiMessages[1].variables
        IN  /\ \A k \in 1..Len(preview) :
                  LET tag == variables[preview[k].id].resolvedType
                  IN  /\ tag = "FLOAT" => preview[k].type = "NUMBER"
                      /\ tag # "FLOAT" => preview[k].type = tag
                      /\ GetDisplayTypeName(preview[k].type) = preview[k].type
            /\ \A tag \in Types \cup {"NUMBER"} :
                  GetDisplayTypeName(GetDisplayTypeName(tag)) = GetDisplayTypeName(tag)

\* The preview of a source collection whose first variable is a FLOAT.
C13_Witness ==
    /\ Previewed
    /\ msg.collectionId = SourceId
    /\ variables[V1].resolvedType = "FLOAT"
    /\ uiMessages[1].count = NumVariables
    /\ uiMessages[1].variables[1].type = "NUMBER"
    /\ uiMessages[1].variables[2].type = "COLOR"

\* The items each phase has attempted so far.
Created == createSuccessCount + createErrorCount
Copied  == valueSuccessCount + valueErrorCount
Rebound == rebindSuccessCount + rebindErrorCount

Shells == {id \in DOMAIN variables : id[1] = "new"}

AnyValueCopied ==
    \/ Copied > 0
    \/ \E id \in Shells : \E m \in 1..Len(variables[id].valuesByMode) :
          variables[id].valuesByMode[m] # DefaultValue

AnyBindingRebound == Rebound > 0 \/ nodes # before.nodes

AnyOriginalDeleted ==
    deleteCount > 0 \/ \E id \in DOMAIN before.variables : id \notin DOMAIN variables

\* C14: no value is copied before the creation of every movable variable
\* has been attempted (the identity map then holds one entry for each
\* success), no binding is rebound before every value copy has been
\* attempted, no original is deleted before the rebind of every located
\* binding has been attempted, and a run that ends with its summary has
\* attempted every item of every phase.
C14_PhasesInOrder ==
    /\ AnyValueCopied =>
          /\ Created = Len(safeToMove)
          /\ Cardinality(DOMAIN idMapping) = createSuccessCount
    /\ AnyBindingRebound =>
          Created = Len(safeToMove) /\ Copied = Len(safeToMove)
    /\ AnyOriginalDeleted =>
          /\ Created = Len(safeToMove) /\ Copied = Len(safeToMove)
          /\ Rebound = Len(allBindings)
    /\ Completed =>
          /\ Created = Len(safeToMove) /\ Copied = Len(safeToMove)
          /\ Rebound = Len(allBindings)
          /\ oldVariableIds = MappingKeys
          /\ \A id \in DOMAIN idMapping :
                id \notin DOMAIN variables \/ Threw("delete", id)

\* A run over two movable variables and two bindings that went through
\* every phase.
C14_Witness ==
    /\ Completed
    /\ Len(safeToMove) = 2
    /\ createSuccessCount = 2 /\ valueSuccessCount = 2
    /\ Len(allBindings) = 2 /\ rebindSuccessCount = 2
    /\ deleteCount = 2

ScalarIndex(property) ==
    CHOOSE k \in 1..Len(ScalarProperties) : ScalarProperties[k] = property

\* The variable a located binding refers to now (NoVar when its entry is
\* gone).
BoundNow(binding) ==
    IF binding.isArrayBinding
    THEN LET list == ListOf(nodes[binding.node], binding.property)
         IN  IF binding.bindingIndex <= Len(list)
             THEN list[binding.bindingIndex] ELSE NoVar
    ELSE nodes[binding.node].bound[ScalarIndex(binding.property)]

\* The rebind of the k-th located binding returned false: its node cannot
\* set a binding, its list property is none the handler rebinds, or the host
\* call threw.
RebindFailed(k) ==
    LET binding == allBindings[k]
    IN  \/ ~binding.isArrayBinding /\ ~before.nodes[binding.node].setBoundVariable
        \/ binding.isArrayBinding /\ binding.property \notin {"fills", "strokes", "effects"}
        \/ [call |-> "rebind", id |-> binding.variableId, index |-> k] \in thrown

\* C15: after a completed run every original with an identity-map entry has
\* been handed to Phase 4 and is deleted unless its own deletion threw,
\* whether or not its values were copied and its bindings rebound; a binding
\* whose rebind failed still refers to the original, which is deleted, so
\* the binding dangles.
C15_DeletesEveryMappedOriginal ==
    Completed =>
        /\ Range(oldVariableIds) = DOMAIN idMapping
        /\ \A id \in DOMAIN idMapping :
              id \notin DOMAIN variables \/ Threw("delete", id)
        /\ Summary.deletedCount
              = Cardinality({id \in DOMAIN idMapping : id \notin DOMAIN variables})
        /\ \A k \in 1..Len(allBindings) :
              RebindFailed(k) =>
                  /\ BoundNow(allBindings[k]) = allBindings[k].variableId
                  /\ allBindings[k].variableId \notin DOMAIN variables
                        \/ Threw("delete", allBindings[k].variableId)

\* A node without the set-binding capability is bound to the first original;
\* the rebind fails, the original is deleted and the node still refers to it.
C15_Witness ==
    /\ Completed
    /\ thrown = {}
    /\ Len(allBindings) >= 1
    /\ RebindFailed(1)
    /\ allBindings[1].variableId = V1
    /\ Summary.rebindErrorCount >= 1
    /\ BoundNow(allBindings[1]) = V1
    /\ V1 \notin DOMAIN variables
    /\ Summary.deletedCount = Cardinality(DOMAIN idMapping)

\* The selected variables that resolve and are not blocked by a name.
Movable == ResolvedSelection(msg) \ Blocked(msg)

\* The value the shell of y is to hold at mode m: the original's literal, an
\* alias to the shell of a moved variable, an alias to a variable that
\* stays behind, and no value for an alias that does not resolve.
ExpectedValue(y, m) ==
    LET v == BeforeValue(y, m)
    IN  IF ~IsAlias(v) THEN v
        ELSE IF v.id \in DOMAIN idMapping THEN Alias(idMapping[v.id])
        ELSE IF v.id \in DOMAIN before.variables THEN Alias(v.id)
        ELSE DefaultValue

PairedModes(y) ==
    {m \in BeforeModes(y) : m <= collections[Destination].modes}

\* Every binding that referred to y before the run refers to y's shell.
AllBindingsRebound(y) ==
    \A n \in NodeIds :
        /\ \A k \in ScalarsBoundTo(n, y) : nodes[n].bound[k] = idMapping[y]
        /\ \A q \in 1..Len(ListProperties) :
              \A j \in EntriesBoundTo(n, ListProperties[q], y) :
                  /\ j <= Len(ListOf(nodes[n], ListProperties[q]))
                  /\ ListOf(nodes[n], ListProperties[q])[j] = idMapping[y]

FullyMigrated(y) ==
    /\ HasShell(y)
    /\ idMapping[y] \in Range(collections[Destination].variableIds)
    /\ variables[idMapping[y]].name = before.variables[y].name
    /\ \A m \in PairedModes(y) : ShellValue(y, m) = ExpectedValue(y, m)
    /\ AllBindingsRebound(y)
    /\ y \notin DOMAIN variables

\* One of y's own operations failed: its creation, its value copy (or the
\* lookup of a variable it aliases), the rebind of a binding to it, or its
\* deletion.
OwnFailure(y) ==
    \/ Threw("create", y) \/ Threw("copy", y) \/ Threw("lookup", y)
    \/ \E k \in 1..Len(allBindings) : allBindings[k].variableId = y /\ RebindFailed(k)
    \/ Threw("delete", y)

Throws(call) == {t \in thrown : t.call = call}

DroppedValues(y) ==
    UNION { {BeforeValue(y, m), ExpectedValue(y, m)} :
              m \in BeforeModes(y) \ PairedModes(y) } \ {DefaultValue}

Unresolvable(y, m) ==
    /\ IsAlias(BeforeValue(y, m))
    /\ BeforeValue(y, m).id \notin DOMAIN idMapping
    /\ BeforeValue(y, m).id \notin DOMAIN before.variables

CopiedWithoutFailure(y) == HasShell(y) /\ ~Threw("copy", y) /\ ~Threw("lookup", y)

\* C18: when a moved variable holds at a paired mode an alias to a variable
\* that is not in the identity map and does not resolve, the shell's value
\* at that mode is left unset, the other modes of the variable and the
\* other variables are copied, the copy counts as a success and errorCount
\* counts the failed creations only; a run in which no host call fails ends
\* with its summary.
C18_UnresolvableAliasLeftUnset ==
    /\ (pc \in {"done", "rejected"} /\ safeToMove # <<>> /\ thrown = {}) => Completed
    /\ Completed =>
          \A y \in DOMAIN idMapping : \A m \in PairedModes(y) :
              (HasShell(y) /\ Unresolvable(y, m)) =>
                  /\ ShellValue(y, m) = DefaultValue
                  /\ \A z \in DOMAIN idMapping : \A n \in PairedModes(z) :
                        (CopiedWithoutFailure(z) /\ <<z, n>> # <<y, m>>)
                            => ShellValue(z, n) = ExpectedValue(z, n)
                  /\ valueSuccessCount
                        = Cardinality({z \in DOMAIN idMapping : ~Threw("copy", z)})
                  /\ valueErrorCount = Cardinality(Throws("copy"))
                                         + Cardinality(Movable \ DOMAIN idMapping)
                  /\ Summary.errorCount = Cardinality(Throws("create"))

\* The first original aliases a variable that is gone at its first mode:
\* its shell has no value there and the original's value at the second
\* mode, the second original is copied too, and no error is counted.
C18_Witness ==
    /\ Completed
    /\ thrown = {}
    /\ BeforeModes(V1) = {1, 2}
    /\ collections[Destination].modes = 2
    /\ BeforeValue(V1, 1) = Alias(GhostVar)
    /\ HasShell(V1) /\ HasShell(V2)
    /\ ShellValue(V1, 1) = DefaultValue
    /\ ShellValue(V1, 2) = LiteralOf(1, 2)
    /\ ShellValue(V2, 1) = LiteralOf(2, 1)
    /\ valueSuccessCount = 2 /\ valueErrorCount = 0
    /\ Summary.errorCount = 0

\* rebindVariable returns false for a binding and the node as it is now:
\* a scalar binding whose node cannot set a binding, a list binding whose
\* property the node no longer has as a list, whose property is not fills,
\* strokes or effects, or whose index is out of the range of the list.
ReturnsFalse(binding) ==
    LET node == nodes[binding.node]
    IN  IF ~binding.isArrayBinding
        THEN ~node.setBoundVariable
        ELSE \/ binding.property \in node.unlisted
             \/ binding.property \notin {"fills", "strokes", "effects"}
             \/ binding.bindingIndex > Len(ListOf(node, binding.property))

\* C19: every iteration of the Phase 3 loop goes on to the next binding or
\* to Phase 4 and never ends the handler; when rebindVariable returns false
\* (one of the cases of ReturnsFalse, or a host call of the rebind throws)
\* the node is left unchanged, rebindErrorCount is incremented and
\* rebindSuccessCount is not.
C19_FailedRebindCountedAndSkipped ==
    [][ (pc = "phase3" /\ (i' # i \/ pc' # pc)) =>
          /\ IF i < Len(allBindings)
             THEN pc' = "phase3" /\ i' = i + 1
             ELSE pc' = "phase4"
          /\ rebindSuccessCount' + rebindErrorCount'
                = rebindSuccessCount + rebindErrorCount + 1
          /\ (ReturnsFalse(allBindings[i]) \/ thrown' # thrown) =>
                /\ nodes' = nodes
                /\ rebindErrorCount' = rebindErrorCount + 1
                /\ rebindSuccessCount' = rebindSuccessCount
      ]_vars

\* The user removed an entry of a list after the bindings were located: the
\* rebind of a binding whose index is now out of range was counted as
\* failed, the rebind of another binding succeeded after it, and the run
\* ended with its summary.
C19_Witness ==
    /\ Completed
    /\ \E e \in userEdits : e.edit = "remove"
    /\ \E k \in 1..Len(allBindings) :
          /\ allBindings[k].isArrayBinding
          /\ allBindings[k].property \in PaintLists
          /\ allBindings[k].bindingIndex
                > Len(ListOf(nodes[allBindings[k].node], allBindings[k].property))
          /\ k < Len(allBindings)
    /\ Summary.rebindErrorCount = 1
    /\ Summary.rebindSuccessCount = Len(allBindings) - 1
    /\ Summary.rebindSuccessCount >= 1

\* The scalar bindings and list entries of node n that refer to no key of
\* the identity map are as they were before the run.
OtherBindingsKept(n) ==
    /\ \A k \in 1..Len(ScalarProperties) :
          before.nodes[n].bound[k] \notin DOMAIN idMapping
              => nodes[n].bound[k] = before.nodes[n].bound[k]
    /\ \A q \in 1..Len(ListProperties) :
          LET was == ListOf(before.nodes[n], ListProperties[q])
              now == ListOf(nodes[n], ListProperties[q])
          IN  /\ Len(now) = Len(was)
              /\ \A j \in 1..Len(was) :
                    was[j] \notin DOMAIN idMapping => now[j] = was[j]

\* C20: at every point of a run, every scalar binding and every list entry
\* whose referenced identity is not a key of the identity map refers to the
\* variable it referred to before the run, the other entries of a list in
\* which an entry was rebound included.
C20_OnlyMovedBindingsTouched ==
    \A n \in NodeIds : OtherBindingsKept(n)

\* The second of three fills entries was rebound to the shell; the unbound
\* entry before it and the entry bound to a resident after it are as before.
C20_Witness ==
    /\ Completed
    /\ V1 \in DOMAIN idMapping
    /\ \E n \in NodeIds :
          /\ before.nodes[n].fills = <<NoVar, V1, DestVar(3)>>
          /\ nodes[n].fills = <<NoVar, idMapping[V1], DestVar(3)>>
    /\ Summary.rebindSuccessCount >= 1

\* The variables the destination collection holds now and did not hold when
\* the request arrived.
AddedToDestination ==
    Range(collections[Destination].variableIds)
        \ Range(before.collections[Destination].variableIds)

\* C22: after a completed run the variables added to the destination
\* collection are exactly the shells recorded in the identity map, one per
\* key, so the destination has grown by successCount variables, also when a
\* creation failed after the host had created the variable.
C22_DestinationGrowsByShells ==
    Completed =>
        /\ AddedToDestination = {idMapping[id] : id \in DOMAIN idMapping}
        /\ Cardinality(AddedToDestination) = Cardinality(DOMAIN idMapping)
        /\ Cardinality(AddedToDestination) = Summary.successCount

\* The variables of a collection that carry a name.
Named(collectionId, name) ==
    {id \in DOMAIN variables :
        /\ variables[id].variableCollectionId = collectionId
        /\ variables[id].name = name}

HandlerEnded == pc \in {"done", "rejected"}

\* Someone else deleted original id during the run, on its own or with its
\* collection.
DeletedByOther(id) ==
    \E e \in userEdits :
        \/ e.entity = "original" /\ e.variable = id
        \/ /\ e.entity = "collection"
           /\ before.variables[id].variableCollectionId = e.collection

\* The moved originals this run has removed.
RemovedByRun ==
    {id \in DOMAIN idMapping : id \notin DOMAIN variables /\ ~DeletedByOther(id)}

\* A step of Phase 2 or Phase 3 that counts a success for a variable that is
\* no longer in the document: values copied from a deleted original or to a
\* deleted shell, or a binding pointed at a deleted shell.
OperatesOnVanished ==
    \/ /\ pc = "phase2"
       /\ valueSuccessCount' # valueSuccessCount
       /\ ~HandlesLive
    \/ /\ pc = "phase3"
       /\ rebindSuccessCount' # rebindSuccessCount
       /\ idMapping[allBindings[i].variableId] \notin DOMAIN variables

\* C21: when someone else deletes a collection, an original or a shell
\* between two phases of a run, the next phase does not operate on what is
\* gone, and (in a run in which no host call fails otherwise) the run ends
\* with a completion summary whose deletedCount counts exactly the originals
\* this run removed.
C21_ExternalDeletionsRechecked ==
    /\ [][~OperatesOnVanished]_vars
    /\ []((HandlerEnded /\ userEdits # {} /\ thrown = {}) =>
             /\ Completed
             /\ Summary.deletedCount = Cardinality(RemovedByRun))

\* C10: once a request has passed validation, the handler ends with exactly
\* one completion summary, never with a raised error and no response.
C10_ValidatedRunEndsWithSummary ==
    (HandlerEnded /\ safeToMove # <<>>) =>
        /\ pc = "done"
        /\ Len(uiMessages) = 1
        /\ uiMessages[1].type = "move-complete"

=============================================================================
